---- MODULE Spec2Model ----
(***************************************************************************)
(* Size-targeting image compressor (backend/app): the format selector, the *)
(* dimension planner, the scale loop with its quality search, and the two  *)
(* HTTP handlers that validate a request and call the orchestrator.        *)
(*                                                                         *)
(* Python floats are IEEE doubles.  Where the code truncates a float       *)
(* product, int(a * (m / n)), the model computes the double result exactly *)
(* with integer long division (MulTrunc); the operator was compared with   *)
(* the interpreter on every a, m < n < 300 and on the five scale factors.  *)
(***************************************************************************)
EXTENDS Integers, Sequences, FiniteSets, TLC

VARIABLES
    pc,                         \* position in the running call
    img,                        \* the decoded image (PIL Image of the input)
    image_bytes,                \* the input payload
    args,                       \* the arguments of the running call
    chosen_format,
    warnings,
    scale_i,                    \* index of the current scale in resize_scales
    new_width, new_height,
    working_img,                \* pixel size of the image handed to the encoder
    low_q, high_q, iter,
    scale_best_result, scale_best_distance,
    best_result, best_size, best_distance_from_target,
    ret,                        \* value returned by the call
    encodes,                    \* history: every convert_image_to_bytes call
    resizes,                    \* history: every img.resize call
    decodes,                    \* history: number of Image.open calls
    calls,                      \* history: compress_to_target calls made by a handler
    upload, params, response    \* HTTP handlers: file, params JSON, outcome

search_vars == <<scale_i, new_width, new_height, working_img, low_q, high_q,
                 iter, scale_best_result, scale_best_distance, best_result,
                 best_size, best_distance_from_target>>
call_vars == <<img, image_bytes, args, chosen_format, warnings, ret>>
hist_vars == <<encodes, resizes, decodes, calls>>
http_vars == <<upload, params, response>>
vars == <<pc, call_vars, search_vars, hist_vars, http_vars>>

----------------------------------------------------------------------------
(* Bounds of the explored inputs *)

MaxSide == 24           \* planner: original width and height range over 1..MaxSide
MaxCap == 16            \* planner: max_dim ranges over 1..MaxCap, or is unset
MaxDensity == 2         \* orchestrator: image detail, 1..MaxDensity
MaxUpload == 3          \* handlers: upload sizes are 0 and UploadUnit * 1..MaxUpload

----------------------------------------------------------------------------
(* Python values *)

None == -1                      \* Optional[int] without a value
Inf == 1000000                  \* float('inf'): above every size and distance

Max(a, b) == IF a >= b THEN a ELSE b

\* str.upper() on the format names that occur
Upper(s) ==
    CASE s = "auto" -> "AUTO"
      [] s = "jpeg" -> "JPEG"
      [] s = "jpg" -> "JPG"
      [] s = "png" -> "PNG"
      [] s = "webp" -> "WEBP"
      [] s = "gif" -> "GIF"
      [] OTHER -> s

RECURSIVE Pow2(_)
Pow2(k) == IF k = 0 THEN 1 ELSE 2 * Pow2(k - 1)

RECURSIVE BitLen(_)
BitLen(v) == IF v = 0 THEN 0 ELSE 1 + BitLen(v \div 2)

\* smallest t with m * 2^t >= n
RECURSIVE Shift(_, _)
Shift(m, n) == IF m >= n THEN 0 ELSE 1 + Shift(2 * m, n)

\* k steps of binary long division by n from remainder rem:
\* <<remainder, last quotient bit>>
RECURSIVE LongDiv(_, _, _, _)
LongDiv(rem, bit, n, k) ==
    IF k = 0 THEN <<rem, bit>>
    ELSE IF 2 * rem >= n THEN LongDiv(2 * rem - n, 1, n, k - 1)
         ELSE LongDiv(2 * rem, 0, n, k - 1)

\* int(a * (m / n)) for 0 < m < n, as IEEE double arithmetic computes it:
\* m / n is rounded to 53 bits (half to even), the product is rounded again,
\* and int() truncates.  The result is floor(a*m/n), except that an exact
\* integer product a*m/n = v comes out as v - 1 when the quotient was rounded
\* down far enough for the product to round below v.
MulTrunc(a, m, n) ==
    LET t == Shift(m, n)
        d == LongDiv(m, 0, n, t + 52)
        r == d[1]
        down == (2 * r < n) \/ (2 * r = n /\ d[2] = 0)
        v == (a * m) \div n
        Lv == BitLen(v)
        below == IF Pow2(Lv - 1) = v
                 THEN 8 * a * r > n * Pow2(Lv + t)
                 ELSE 4 * a * r > n * Pow2(Lv + t)
    IN  IF a = 0 THEN 0
        ELSE IF (a * m) % n # 0 THEN v
        ELSE IF r = 0 \/ ~down THEN v
        ELSE IF below THEN v - 1 ELSE v

\* int(x * scale_factor) for a scale factor given in percent
ScaleTrunc(x, pct) == IF pct = 100 THEN x ELSE MulTrunc(x, pct, 100)

----------------------------------------------------------------------------
(* compress.py: Dimension Planner *)

calculate_resize_dimensions(original_width, original_height, max_dim, scale_pct) ==
    LET w1 == ScaleTrunc(original_width, scale_pct)
        h1 == ScaleTrunc(original_height, scale_pct)
        capped == max_dim # None /\ max_dim # 0 /\ Max(w1, h1) > max_dim
        den == IF w1 > h1 THEN w1 ELSE h1
        w2 == IF capped THEN MulTrunc(w1, max_dim, den) ELSE w1
        h2 == IF capped THEN MulTrunc(h1, max_dim, den) ELSE h1
    IN  <<Max(1, w2), Max(1, h2)>>

----------------------------------------------------------------------------
(* compress.py: Format Selector *)

\* A warning is a tuple: its text, then the values formatted into it
WarnTransparencyWebp == <<"Image has transparency. Using WebP for lossy compression.">>
WarnPngTransparency == <<"PNG with transparency may not reach target size. Consider WebP.">>

has_transparency(image) ==
    image.mode \in {"RGBA", "LA"} \/ (image.mode = "P" /\ image.transparency)

\* target_bytes / current_size < 0.5, the ratio being 1 when current_size = 0;
\* 0.5 is a double, so the rounded quotient is below it exactly when the
\* exact quotient is
AggressiveRatio_Inclusive(target_bytes, current_size) ==
    IF current_size > 0 THEN 2 * target_bytes <= current_size ELSE FALSE

AggressiveRatio(target_bytes, current_size) ==
    IF current_size > 0 THEN 2 * target_bytes < current_size ELSE FALSE

\* returns <<format, warnings>>
choose_output_format(image, original_format, target_bytes, current_size, requested_format) ==
    IF requested_format # "auto" THEN <<Upper(requested_format), <<>>>>
    ELSE IF AggressiveRatio(target_bytes, current_size) THEN
        IF has_transparency(image)
        THEN <<"WEBP", <<WarnTransparencyWebp>>>>
        ELSE <<"WEBP", <<>>>>
    ELSE IF Upper(original_format) \in {"JPEG", "JPG"} THEN <<"JPEG", <<>>>>
    ELSE IF Upper(original_format) = "WEBP" THEN <<"WEBP", <<>>>>
    ELSE IF Upper(original_format) = "PNG" THEN
        IF has_transparency(image)
        THEN <<"PNG", <<WarnPngTransparency>>>>
        ELSE <<"WEBP", <<>>>>
    ELSE <<"WEBP", <<>>>>

----------------------------------------------------------------------------
(* Values of the variables a specification does not use *)

NoImage == [width |-> 0, height |-> 0, format |-> "", mode |-> "",
            transparency |-> FALSE, density |-> 0]
NoBytes == [kind |-> "none", format |-> "", quality |-> None,
            width |-> 0, height |-> 0, len |-> 0]

SearchIdle ==
    /\ scale_i = 0
    /\ new_width = 0
    /\ new_height = 0
    /\ working_img = <<0, 0>>
    /\ low_q = 0
    /\ high_q = 0
    /\ iter = 0
    /\ scale_best_result = <<>>
    /\ scale_best_distance = Inf
    /\ best_result = <<>>
    /\ best_size = Inf
    /\ best_distance_from_target = Inf

HistIdle ==
    /\ encodes = <<>>
    /\ resizes = <<>>
    /\ decodes = 0
    /\ calls = <<>>

HttpIdle ==
    /\ upload = NoBytes
    /\ params = <<>>
    /\ response = <<>>

----------------------------------------------------------------------------
(* The Dimension Planner applied to bounded arguments *)

ScalePcts == {100, 90, 80, 70, 60, 50}

PlannerInit ==
    /\ pc = "planner_call"
    /\ args \in [original_width : 1..MaxSide, original_height : 1..MaxSide,
                 max_dim : {None} \cup (1..MaxCap), scale : ScalePcts]
    /\ img = NoImage
    /\ image_bytes = NoBytes
    /\ chosen_format = ""
    /\ warnings = <<>>
    /\ ret = <<>>
    /\ SearchIdle /\ HistIdle /\ HttpIdle

PlanDimensions ==
    /\ pc = "planner_call"
    /\ ret' = calculate_resize_dimensions(args.original_width, args.original_height,
                                          args.max_dim, args.scale)
    /\ pc' = "planner_done"
    /\ UNCHANGED <<img, image_bytes, args, chosen_format, warnings,
                   search_vars, hist_vars, http_vars>>

PlannerNext == PlanDimensions
SpecPlanner == PlannerInit /\ [][PlannerNext]_vars

----------------------------------------------------------------------------
(* The Format Selector applied to bounded arguments *)

MaxBytes == 5           \* selector: target_bytes in 1..MaxBytes, current_size in 0..MaxBytes

ImageModes == {"RGB", "RGBA", "L", "LA", "P"}
ContainerNames == {"JPEG", "JPG", "jpeg", "PNG", "png", "WEBP", "GIF", "UNKNOWN"}
RequestedFormats == {"auto", "jpeg", "png", "webp"}

SelectorInit ==
    /\ pc = "selector_call"
    /\ img \in [width : {1}, height : {1}, format : ContainerNames, mode : ImageModes,
                transparency : BOOLEAN, density : {1}]
    /\ args \in [target_bytes : 1..MaxBytes, current_size : 0..MaxBytes,
                 requested_format : RequestedFormats]
    /\ image_bytes = NoBytes
    /\ chosen_format = ""
    /\ warnings = <<>>
    /\ ret = <<>>
    /\ SearchIdle /\ HistIdle /\ HttpIdle

SelectFormat ==
    /\ pc = "selector_call"
    /\ ret' = choose_output_format(img, img.format, args.target_bytes,
                                   args.current_size, args.requested_format)
    /\ pc' = "selector_done"
    /\ UNCHANGED <<img, image_bytes, args, chosen_format, warnings,
                   search_vars, hist_vars, http_vars>>

SelectorNext == SelectFormat
SpecFormat == SelectorInit /\ [][SelectorNext]_vars

----------------------------------------------------------------------------
(* utils.py: the encoder.  A payload is described by what produced it and  *)
(* by its length; the pixels themselves are not modelled.                   *)

\* Encoder effort per pixel as a function of quality: linear up to 80 and
\* six times steeper above, as lossy encoders grow near the top of the range
QCurve(quality) == IF quality <= 80 THEN quality ELSE 80 + 6 * (quality - 80)

\* len(convert_image_to_bytes(...)): grows with the pixel count and the image
\* detail; the quality matters for the lossy formats only
EncodedLen(density, format, size, quality) ==
    IF Upper(format) \in {"JPEG", "JPG", "WEBP"}
    THEN (density * size[1] * size[2] * QCurve(quality)) \div 20
    ELSE density * size[1] * size[2] * 3

convert_image_to_bytes(density, size, format, quality, strip_exif) ==
    [kind |-> "encoded",
     format |-> IF Upper(format) \in {"JPEG", "JPG"} THEN "JPEG" ELSE format,
     quality |-> quality,
     width |-> size[1], height |-> size[2],
     len |-> EncodedLen(density, format, size, quality)]

----------------------------------------------------------------------------
(* compress.py: compress_to_target *)

WarnBestEffort == <<"Could not reach target size. This is the best effort result.">>
WarnExactTarget(size, target) ==
    <<"Could not reach exact target. Output is {best_size} bytes (target was {target_bytes}).",
      size, target>>

resize_scales(priority) ==
    IF priority = "optimal_resolution" THEN <<100>>
    ELSE <<100, 90, 80, 70, 60, 50>>

Scales == resize_scales(args.priority)
scale == Scales[scale_i]

\* best_distance_from_target < target_bytes * 0.05; the float comparison
\* agrees with the exact one for every target below 200000
CloseEnough_Never(distance, target_bytes) == FALSE

CloseEnough(distance, target_bytes) == 20 * distance < target_bytes

PassThrough_Strict(original_size, target_bytes, format, original_format) ==
    original_size < target_bytes /\ format = Upper(original_format)

\* line 102
PassThrough(original_size, target_bytes, format, original_format) ==
    original_size <= target_bytes /\ format = Upper(original_format)

SearchIterations_Eleven == 10 + 1

\* line 148: for _ in range(10)
SearchIterations == 10

LosslessStop_Never(size, target_bytes) == FALSE

\* line 187: the lossless loop breaks at the first encoding within the target
LosslessStop(size, target_bytes) == size <= target_bytes

WithinTarget_Any(size, target_bytes) == TRUE

\* lines 136 and 153: a probe is acceptable when it does not exceed the target
WithinTarget(size, target_bytes) == size <= target_bytes

\* lines 88-115: decode, choose the format, pass-through or start the loop
Begin ==
    /\ pc = "call"
    /\ decodes' = decodes + 1
    /\ LET original_size == image_bytes.len
           original_format == img.format
           sel == choose_output_format(img, original_format, args.target_bytes,
                                       original_size, args.output_format)
       IN  /\ chosen_format' = sel[1]
           /\ warnings' = sel[2]
           /\ IF PassThrough(original_size, args.target_bytes, sel[1], original_format)
              THEN /\ ret' = <<image_bytes, img.width, img.height, sel[1], sel[2]>>
                   /\ pc' = "done"
                   /\ UNCHANGED search_vars
              ELSE /\ ret' = ret
                   /\ pc' = "scale"
                   /\ scale_i' = 1
                   /\ best_result' = <<>>
                   /\ best_size' = Inf
                   /\ best_distance_from_target' = Inf
                   /\ UNCHANGED <<new_width, new_height, working_img, low_q, high_q,
                                  iter, scale_best_result, scale_best_distance>>
    /\ UNCHANGED <<img, image_bytes, args, encodes, resizes, calls, http_vars>>

\* the for statement takes the next scale, or the loop is exhausted
NextScale ==
    IF scale_i < Len(Scales)
    THEN scale_i' = scale_i + 1 /\ pc' = "scale"
    ELSE scale_i' = scale_i /\ pc' = "final"

\* lines 117-131, 144-146: dimensions, resize or copy, branch on the format
ScaleStart ==
    /\ pc = "scale"
    /\ LET dims == calculate_resize_dimensions(img.width, img.height, args.max_dim, scale)
       IN  /\ new_width' = dims[1]
           /\ new_height' = dims[2]
           /\ IF scale < 100
              THEN /\ working_img' = dims
                   /\ resizes' = Append(resizes, dims)
              ELSE /\ working_img' = <<img.width, img.height>>
                   /\ resizes' = resizes
    /\ IF chosen_format \in {"JPEG", "WEBP"}
       THEN IF args.quality_mode = "manual" /\ args.manual_quality # None
            THEN /\ pc' = "manual"
                 /\ UNCHANGED <<low_q, high_q, iter, scale_best_result, scale_best_distance>>
            ELSE /\ pc' = "auto"
                 /\ low_q' = 40
                 /\ high_q' = 95
                 /\ iter' = 0
                 /\ scale_best_result' = <<>>
                 /\ scale_best_distance' = Inf
       ELSE /\ pc' = "lossless"
            /\ UNCHANGED <<low_q, high_q, iter, scale_best_result, scale_best_distance>>
    /\ UNCHANGED <<scale_i, best_result, best_size, best_distance_from_target,
                   call_vars, encodes, decodes, calls, http_vars>>

\* lines 132-141: one encode at the manual quality
ManualEncode ==
    /\ pc = "manual"
    /\ LET quality == args.manual_quality
           compressed == convert_image_to_bytes(img.density, working_img, chosen_format,
                                                quality, args.strip_exif)
           size == compressed.len
           distance == args.target_bytes - size
       IN  /\ encodes' = Append(encodes, [scale |-> scale, phase |-> "loop",
                                          reported |-> <<new_width, new_height>>,
                                          bytes |-> compressed])
           /\ IF WithinTarget(size, args.target_bytes) /\ distance < best_distance_from_target
              THEN /\ best_result' = <<compressed, new_width, new_height>>
                   /\ best_size' = size
                   /\ best_distance_from_target' = distance
              ELSE UNCHANGED <<best_result, best_size, best_distance_from_target>>
    /\ NextScale
    /\ UNCHANGED <<new_width, new_height, working_img, low_q, high_q, iter,
                   scale_best_result, scale_best_distance, call_vars,
                   resizes, decodes, calls, http_vars>>

\* lines 148-162: one iteration of the binary search
Probe ==
    /\ pc = "auto"
    /\ iter < SearchIterations
    /\ LET mid_q == (low_q + high_q) \div 2
           compressed == convert_image_to_bytes(img.density, working_img, chosen_format,
                                                mid_q, args.strip_exif)
           size == compressed.len
           distance == args.target_bytes - size
       IN  /\ encodes' = Append(encodes, [scale |-> scale, phase |-> "loop",
                                          reported |-> <<new_width, new_height>>,
                                          bytes |-> compressed])
           /\ IF WithinTarget(size, args.target_bytes)
              THEN /\ IF distance < scale_best_distance
                      THEN /\ scale_best_result' = <<compressed, new_width, new_height, size>>
                           /\ scale_best_distance' = distance
                      ELSE UNCHANGED <<scale_best_result, scale_best_distance>>
                   /\ low_q' = mid_q + 1
                   /\ high_q' = high_q
              ELSE /\ high_q' = mid_q - 1
                   /\ low_q' = low_q
                   /\ UNCHANGED <<scale_best_result, scale_best_distance>>
    /\ iter' = iter + 1
    /\ UNCHANGED <<pc, scale_i, new_width, new_height, working_img, best_result,
                   best_size, best_distance_from_target, call_vars, resizes,
                   decodes, calls, http_vars>>

\* lines 164-177: fold the scale's best into the global best, stopping rules
ScaleEnd ==
    /\ pc = "auto"
    /\ iter = SearchIterations
    /\ IF scale_best_result # <<>> /\ scale_best_distance < best_distance_from_target
       THEN /\ best_result' = <<scale_best_result[1], scale_best_result[2],
                                scale_best_result[3]>>
            /\ best_size' = scale_best_result[4]
            /\ best_distance_from_target' = scale_best_distance
       ELSE UNCHANGED <<best_result, best_size, best_distance_from_target>>
    /\ IF \/ args.priority = "target_size"
             /\ CloseEnough(best_distance_from_target', args.target_bytes)
          \/ args.priority = "optimal_resolution" /\ best_result' # <<>>
       THEN pc' = "final" /\ scale_i' = scale_i
       ELSE NextScale
    /\ UNCHANGED <<new_width, new_height, working_img, low_q, high_q, iter,
                   scale_best_result, scale_best_distance, call_vars, hist_vars,
                   http_vars>>

\* lines 179-188: the lossless format is encoded once per scale
LosslessEncode ==
    /\ pc = "lossless"
    /\ LET compressed == convert_image_to_bytes(img.density, working_img, chosen_format,
                                                95, args.strip_exif)
           size == compressed.len
       IN  /\ encodes' = Append(encodes, [scale |-> scale, phase |-> "loop",
                                          reported |-> <<new_width, new_height>>,
                                          bytes |-> compressed])
           /\ IF size < best_size
              THEN /\ best_result' = <<compressed, new_width, new_height>>
                   /\ best_size' = size
              ELSE UNCHANGED <<best_result, best_size>>
           /\ IF LosslessStop(size, args.target_bytes)
              THEN pc' = "final" /\ scale_i' = scale_i
              ELSE NextScale
    /\ UNCHANGED <<new_width, new_height, working_img, low_q, high_q, iter,
                   scale_best_result, scale_best_distance, best_distance_from_target,
                   call_vars, resizes, decodes, calls, http_vars>>

\* lines 190-204: fallback or warning, and the return
Finish ==
    /\ pc = "final"
    /\ IF best_result = <<>>
       THEN LET dims == calculate_resize_dimensions(img.width, img.height, args.max_dim, 50)
                compressed == convert_image_to_bytes(img.density, dims, chosen_format,
                                                     40, args.strip_exif)
            IN  /\ new_width' = dims[1]
                /\ new_height' = dims[2]
                /\ working_img' = dims
                /\ resizes' = Append(resizes, dims)
                /\ encodes' = Append(encodes, [scale |-> 50, phase |-> "fallback",
                                               reported |-> dims, bytes |-> compressed])
                /\ best_result' = <<compressed, dims[1], dims[2]>>
                /\ warnings' = Append(warnings, WarnBestEffort)
       ELSE /\ warnings' = IF best_size > args.target_bytes
                           THEN Append(warnings, WarnExactTarget(best_size, args.target_bytes))
                           ELSE warnings
            /\ UNCHANGED <<new_width, new_height, working_img, resizes, encodes,
                           best_result>>
    /\ ret' = <<best_result'[1], best_result'[2], best_result'[3], chosen_format, warnings'>>
    /\ pc' = "done"
    /\ UNCHANGED <<scale_i, low_q, high_q, iter, scale_best_result, scale_best_distance,
                   best_size, best_distance_from_target, img, image_bytes, args,
                   chosen_format, decodes, calls, http_vars>>

----------------------------------------------------------------------------
(* Calls of compress_to_target on bounded images and requests *)

\* container and colour mode of the decoded input
Decoded == {<<"JPEG", "RGB">>, <<"PNG", "RGB">>, <<"PNG", "RGBA">>, <<"WEBP", "RGB">>}
CallFormats == {"auto", "jpeg", "png"}
OriginalSizes == {1000, 3000}
Targets == {90, 395, 915, 1000, 2500}
QualityChoices == {<<"auto", None>>, <<"manual", None>>, <<"manual", 30>>, <<"manual", 83>>}
Priorities == {"target_size", "optimal_resolution"}

Init ==
    /\ pc = "call"
    /\ \E d \in Decoded :
          img \in [width : {20}, height : {10}, format : {d[1]}, mode : {d[2]},
                   transparency : {FALSE}, density : 1..MaxDensity]
    /\ \E n \in OriginalSizes :
          image_bytes = [kind |-> "input", format |-> img.format, quality |-> None,
                         width |-> img.width, height |-> img.height, len |-> n]
    /\ \E qc \in QualityChoices :
          args \in [target_bytes : Targets, output_format : CallFormats,
                    max_dim : {None, 8}, quality_mode : {qc[1]},
                    manual_quality : {qc[2]}, priority : Priorities,
                    strip_exif : {FALSE}]
    /\ chosen_format = ""
    /\ warnings = <<>>
    /\ ret = <<>>
    /\ SearchIdle /\ HistIdle /\ HttpIdle

Next ==
    \/ Begin
    \/ ScaleStart
    \/ ManualEncode
    \/ Probe
    \/ ScaleEnd
    \/ LosslessEncode
    \/ Finish

Spec == Init /\ [][Next]_vars

----------------------------------------------------------------------------
(* models.py, utils.py, main.py: the HTTP handlers *)

\* the fields EstimateRequest declares; pydantic drops every other key
EstimateRequestFields ==
    {"target_bytes", "output_format", "max_dim", "quality_mode", "quality", "priority"}

QualityInRange_FromZero(quality) == quality >= 0 /\ quality <= 100

\* models.py line 19: Field(ge=1, le=100)
QualityInRange(quality) == quality >= 1 /\ quality <= 100

\* EstimateRequest(**params_dict) raises ValidationError unless this holds
FieldsValid(p) ==
    /\ p.target_bytes > 0
    /\ p.output_format \in {"auto", "jpeg", "png", "webp"}
    /\ p.quality_mode \in {"auto", "manual"}
    /\ p.quality = None \/ QualityInRange(p.quality)
    /\ p.priority \in {"target_size", "optimal_resolution"}

EstimateRequest(p) == [f \in EstimateRequestFields |-> p[f]]

\* int(original_size * min_ratio); an undecodable upload takes the except branch
calculate_minimum_achievable_size(file) ==
    LET by_kind == IF file.mode \in {"RGBA", "LA"} THEN 8
                   ELSE IF file.format = "PNG" THEN 10
                   ELSE 5
        min_ratio == IF file.len < 50000 THEN 15 ELSE by_kind
    IN  IF file.decodable THEN MulTrunc(file.len, min_ratio, 100)
        ELSE MulTrunc(file.len, 5, 100)

Failure(detail, cause) == [status |-> 400, detail |-> detail, cause |-> cause]

\* lines 128-154 (62-88 in estimate_image): the checks made before the
\* orchestrator is called; <<response or <<>>, number of Image.open calls>>
Validate(file, p, failed) ==
    IF file.len = 0 THEN <<Failure("Empty file uploaded", "HTTPException"), 0>>
    ELSE IF ~p.json_ok THEN <<Failure("Invalid JSON in params", "JSONDecodeError"), 0>>
    ELSE IF ~FieldsValid(p) THEN <<Failure(failed, "ValidationError"), 0>>
    ELSE IF p.target_bytes >= file.len
         THEN <<Failure("Target size must be smaller than original size", "HTTPException"), 0>>
    ELSE IF p.target_bytes < calculate_minimum_achievable_size(file)
         THEN <<Failure("Target size is too small", "HTTPException"), 1>>
    ELSE <<<<>>, 1>>

\* Evaluating the argument request.strip_exif raises AttributeError when the
\* model class has no such field.  The message holds none of 'codec', 'encode'
\* and 'unicode', so in compress_image the handler at line 197 re-raises it and
\* the one at line 273 turns it into the generic failure; compress_to_target is
\* not entered, and neither are the retries of lines 171-182 and 209-218.
Handle(failed, start, done) ==
    LET v == Validate(upload, params, failed)
        request == EstimateRequest(params)
    IN  /\ decodes' = v[2]
        /\ IF v[1] # <<>>
           THEN /\ response' = v[1]
                /\ pc' = done
                /\ UNCHANGED <<args, calls>>
           ELSE IF "strip_exif" \in DOMAIN request
           THEN /\ calls' = Append(calls, request)
                /\ args' = [target_bytes |-> request.target_bytes,
                            output_format |-> request.output_format,
                            max_dim |-> request.max_dim,
                            quality_mode |-> request.quality_mode,
                            manual_quality |-> request.quality,
                            priority |-> request.priority,
                            strip_exif |-> request["strip_exif"]]
                /\ response' = response
                /\ pc' = start
           ELSE /\ response' = Failure(failed, "AttributeError")
                /\ pc' = done
                /\ UNCHANGED <<args, calls>>

\* main.py lines 119-283
compress_image ==
    /\ pc = "compress_image"
    /\ Handle("Failed to compress", "call", "compress_done")
    /\ UNCHANGED <<img, image_bytes, chosen_format, warnings, ret, search_vars,
                   encodes, resizes, upload, params>>

\* main.py lines 53-116
estimate_image ==
    /\ pc = "estimate_image"
    /\ Handle("Failed to estimate", "call", "estimate_done")
    /\ UNCHANGED <<img, image_bytes, chosen_format, warnings, ret, search_vars,
                   encodes, resizes, upload, params>>

Uploads ==
    [len : {0} \cup {20000 * k : k \in 1..MaxUpload}, format : {"JPEG", "PNG"},
     mode : {"RGB", "RGBA"}, decodable : {TRUE}]
    \cup [len : {20000 * k : k \in 1..MaxUpload}, format : {""}, mode : {""},
          decodable : {FALSE}]

ParamsJson ==
    [json_ok : {TRUE}, target_bytes : {0, 2900, 3500, 5000, 30000, 70000},
     output_format : {"auto", "gif"}, max_dim : {None},
     quality_mode : {"auto", "manual"}, quality : {None, 0, 10, 100, 101},
     priority : {"target_size"}, strip_exif : BOOLEAN]
    \cup [json_ok : {FALSE}, target_bytes : {0}, output_format : {""}, max_dim : {None},
          quality_mode : {""}, quality : {None}, priority : {""}, strip_exif : {FALSE}]

ApiInit ==
    /\ pc \in {"compress_image", "estimate_image"}
    /\ upload \in Uploads
    /\ params \in ParamsJson
    /\ response = <<>>
    /\ img = NoImage
    /\ image_bytes = NoBytes
    /\ args = <<>>
    /\ chosen_format = ""
    /\ warnings = <<>>
    /\ ret = <<>>
    /\ SearchIdle /\ HistIdle

ApiNext == compress_image \/ estimate_image
SpecApi == ApiInit /\ [][ApiNext]_vars

----------------------------------------------------------------------------
(* Properties of compress_to_target (Spec) *)

Returned == pc = "done" /\ ret # <<>>
LoopRan == encodes # <<>>
Lossy == chosen_format \in {"JPEG", "WEBP"}
LoopEncodes == {i \in DOMAIN encodes : encodes[i].phase = "loop"}
Fits(i) == encodes[i].bytes.len <= args.target_bytes
AnyFit == \E i \in LoopEncodes : Fits(i)
Count(w) == Cardinality({i \in DOMAIN warnings : warnings[i] = w})
HasExactTargetWarning == \E i \in DOMAIN warnings : warnings[i][1] = WarnExactTarget(0, 0)[1]

\* the returned candidate is the fallback: the last encode, made after the
\* loop at scale 0.5 and quality 40, with no loop encode returned
IsFallback ==
    /\ encodes # <<>>
    /\ LET e == encodes[Len(encodes)]
       IN  /\ e.phase = "fallback"
           /\ e.scale = 50
           /\ e.bytes.quality = 40
           /\ ret[1] = e.bytes
           /\ <<ret[2], ret[3]>> = e.reported
    /\ Count(WarnBestEffort) = 1
    /\ ~HasExactTargetWarning

\* C1 as claimed, for the calls that run the scale loop: if any encoding of
\* the loop is within the target the returned bytes are within the target;
\* otherwise the result is the scale-0.5 / quality-40 fallback and
\* 'Could not reach target size' is the only unreachable-target warning.
C1_AnyFormat ==
    (Returned /\ LoopRan) =>
        IF AnyFit THEN ret[1].len <= args.target_bytes ELSE IsFallback

\* C1 amended: the fallback is the outcome for the lossy formats only; with
\* PNG and no encoding within the target the result is the smallest encoding
\* of the loop, no fallback encode is made, and the warning is 'Could not
\* reach exact target' instead.
C1_FallbackLossyOnly ==
    (Returned /\ LoopRan) =>
        IF AnyFit THEN ret[1].len <= args.target_bytes
        ELSE IF Lossy THEN IsFallback
        ELSE /\ \E i \in LoopEncodes :
                   /\ ret[1] = encodes[i].bytes
                   /\ \A j \in LoopEncodes : encodes[j].bytes.len >= ret[1].len
             /\ LoopEncodes = DOMAIN encodes
             /\ Count(WarnExactTarget(ret[1].len, args.target_bytes)) = 1
             /\ Count(WarnBestEffort) = 0

C1_Witness ==
    /\ Returned /\ Lossy /\ ~AnyFit /\ IsFallback
    /\ args.priority = "target_size"
    /\ Cardinality(LoopEncodes) > 1

\* C2: when the input is within the target and the chosen format is the
\* original container format, the call returns the input bytes and the
\* original width and height, and neither resizes nor encodes.
C2_PassThrough ==
    (pc \notin {"call"} /\ image_bytes.len <= args.target_bytes /\ chosen_format = img.format)
        => /\ pc = "done"
           /\ ret[1] = image_bytes
           /\ ret[2] = img.width /\ ret[3] = img.height
           /\ encodes = <<>> /\ resizes = <<>>

C2_Witness ==
    /\ pc = "done" /\ ret[1] = image_bytes
    /\ image_bytes.len = args.target_bytes
    /\ args.max_dim # None

\* C3: in auto mode at the end of one scale's quality search (sizes are
\* increasing in quality in every modelled image), the accepted candidate is
\* the encoding at the largest quality of 40..95 that is within the target,
\* and there is none when no quality of 40..95 is within the target.
C3_MaxQualityInRange ==
    (pc = "auto" /\ iter = SearchIterations) =>
        LET fit == {q \in 40..95 :
                      EncodedLen(img.density, chosen_format, working_img, q)
                          <= args.target_bytes}
        IN  IF fit = {} THEN scale_best_result = <<>>
            ELSE /\ scale_best_result # <<>>
                 /\ \A q \in fit : q <= scale_best_result[1].quality
                 /\ scale_best_result[1].quality \in fit

\* C6: under optimal_resolution nothing is resized and nothing scaled below
\* 1.0 is encoded, and a call that ran the loop returns the planner's
\* dimensions for scale 1.0.
C6_NeverResized ==
    args.priority = "optimal_resolution" =>
        /\ resizes = <<>>
        /\ \A i \in DOMAIN encodes : encodes[i].scale = 100
        /\ (Returned /\ LoopRan) =>
              <<ret[2], ret[3]>> =
                  calculate_resize_dimensions(img.width, img.height, args.max_dim, 100)

AutoLossyTargetSize ==
    /\ args.priority = "target_size"
    /\ ~(args.quality_mode = "manual" /\ args.manual_quality # None)
    /\ Lossy
FullScaleFits == {i \in LoopEncodes : encodes[i].scale = 100 /\ Fits(i)}
Near(len) == 20 * (args.target_bytes - len) < args.target_bytes

\* C7 as claimed: target_size, auto quality, lossy format: if the search at
\* scale 1.0 found an encoding within the target, the returned image is a
\* scale-1.0 encoding, within the target and less than 5% below it.
C7_FullScaleWithinFivePercent ==
    (Returned /\ AutoLossyTargetSize /\ FullScaleFits # {}) =>
        /\ \E i \in FullScaleFits : ret[1] = encodes[i].bytes
        /\ ret[1].len <= args.target_bytes
        /\ Near(ret[1].len)

\* C7 amended: if the search at scale 1.0 found an encoding within the
\* target, the returned size is within the target; and if it found one less
\* than 5% below the target, no smaller scale is tried and the returned
\* image is a scale-1.0 encoding less than 5% below the target.
C7_FullScaleWhenClose ==
    (Returned /\ AutoLossyTargetSize /\ FullScaleFits # {}) =>
        /\ ret[1].len <= args.target_bytes
        /\ (\E i \in FullScaleFits : Near(encodes[i].bytes.len)) =>
              /\ \E i \in FullScaleFits : ret[1] = encodes[i].bytes
              /\ Near(ret[1].len)
              /\ \A i \in DOMAIN encodes : encodes[i].scale = 100

C7_Witness ==
    /\ Returned /\ AutoLossyTargetSize
    /\ \E i \in FullScaleFits : ret[1] = encodes[i].bytes /\ Near(ret[1].len)
    /\ chosen_format = "WEBP" /\ img.format = "JPEG" /\ args.output_format = "auto"

\* C11: one call makes at most 61 encodes (six scales of at most ten probes,
\* and one fallback encode), whatever the priority, quality mode and format.
C11_EncodeBound == Len(encodes) <= 61

C11_Witness ==
    /\ Returned
    /\ Len(encodes) = 61
    /\ encodes[61].phase = "fallback"
    /\ Cardinality({encodes[i].scale : i \in LoopEncodes}) = 6


\* C12: in auto mode every quality handed to the encoder by the binary
\* search lies in 40..95, so no kept candidate was encoded below 40.
C12_ProbesInRange ==
    /\ \A i \in LoopEncodes :
          (Lossy /\ ~(args.quality_mode = "manual" /\ args.manual_quality # None))
              => encodes[i].bytes.quality \in 40..95
    /\ (pc = "auto" /\ scale_best_result # <<>>) => scale_best_result[1].quality >= 40

\* C13: under target_size with a lossy format, in auto and in manual mode,
\* once a scale ends with an encoding less than 5% below the target kept as
\* best, no smaller scale is resized or encoded.
C13_StopWhenClose ==
    (args.priority = "target_size" /\ Lossy) =>
        \A i \in LoopEncodes :
            (Fits(i) /\ Near(encodes[i].bytes.len)) =>
                /\ \A j \in LoopEncodes : encodes[j].scale >= encodes[i].scale
                /\ \A k \in DOMAIN resizes : k < (100 - encodes[i].scale) \div 10 + 1

LosslessRun == chosen_format = "PNG" /\ Returned /\ LoopRan
ScaleOrder == \A i, j \in LoopEncodes : i < j => encodes[i].scale > encodes[j].scale

\* C14: on the PNG path the scales are tried largest first; the loop stops
\* at the first scale whose encoding is within the target and that encoding
\* is returned without an unreachable-target warning; if no encoding is
\* within the target every scale is tried, the smallest encoding is
\* returned, no fallback encode is made, and exactly one warning states the
\* achieved size and the target.
C14_LosslessPath ==
    LosslessRun =>
        /\ ScaleOrder
        /\ LoopEncodes = DOMAIN encodes
        /\ IF AnyFit
           THEN /\ Fits(Len(encodes))
                /\ \A i \in 1..(Len(encodes) - 1) : ~Fits(i)
                /\ ret[1] = encodes[Len(encodes)].bytes
                /\ Count(WarnBestEffort) = 0
                /\ ~HasExactTargetWarning
           ELSE /\ {encodes[i].scale : i \in LoopEncodes}
                       = {Scales[k] : k \in DOMAIN Scales}
                /\ \E i \in LoopEncodes : ret[1] = encodes[i].bytes
                /\ \A i \in LoopEncodes : encodes[i].bytes.len >= ret[1].len
                /\ Count(WarnBestEffort) = 0
                /\ Count(WarnExactTarget(ret[1].len, args.target_bytes)) = 1
                /\ Cardinality({i \in DOMAIN warnings :
                                  warnings[i][1] = WarnExactTarget(0, 0)[1]}) = 1

C14_Witness ==
    /\ LosslessRun
    /\ AnyFit
    /\ Len(encodes) \in 2..5
    /\ ret[1] = encodes[Len(encodes)].bytes

\* C15: a call that ran the loop returns the pixel dimensions of the image
\* encoded into the returned bytes, and with max_dim set that image's larger
\* dimension does not exceed max_dim.
C15_ReportedIsEncoded ==
    (Returned /\ LoopRan) =>
        /\ ret[2] = ret[1].width
        /\ ret[3] = ret[1].height
        /\ args.max_dim # None => Max(ret[1].width, ret[1].height) <= args.max_dim

----------------------------------------------------------------------------
(* Properties of the Format Selector (SpecFormat) *)

FormatName(requested) ==
    CASE requested = "jpeg" -> "JPEG"
      [] requested = "png" -> "PNG"
      [] requested = "webp" -> "WEBP"

Transparent == img.mode \in {"RGBA", "LA"} \/ (img.mode = "P" /\ img.transparency)
TargetUnderHalf == args.current_size # 0 /\ 2 * args.target_bytes < args.current_size

\* the decision table of the claim; container names are compared without
\* regard to letter case
DecisionTable ==
    CASE args.requested_format # "auto" -> <<FormatName(args.requested_format), <<>>>>
      [] args.requested_format = "auto" /\ TargetUnderHalf ->
            <<"WEBP", IF Transparent THEN <<WarnTransparencyWebp>> ELSE <<>>>>
      [] args.requested_format = "auto" /\ ~TargetUnderHalf ->
            CASE img.format \in {"JPEG", "JPG", "jpeg", "jpg"} -> <<"JPEG", <<>>>>
              [] img.format \in {"WEBP", "webp"} -> <<"WEBP", <<>>>>
              [] img.format \in {"PNG", "png"} /\ Transparent -> <<"PNG", <<WarnPngTransparency>>>>
              [] img.format \in {"PNG", "png"} /\ ~Transparent -> <<"WEBP", <<>>>>
              [] OTHER -> <<"WEBP", <<>>>>

\* C8: choose_output_format returns, for every input, what the decision
\* table gives.
C8_DecisionTable == pc = "selector_done" => ret = DecisionTable

C8_Witness ==
    /\ pc = "selector_done"
    /\ args.requested_format = "auto"
    /\ 2 * args.target_bytes = args.current_size
    /\ img.format = "PNG" /\ Transparent
    /\ ret = <<"PNG", <<WarnPngTransparency>>>>

----------------------------------------------------------------------------
(* Properties of the Dimension Planner (SpecPlanner) *)

\* C9: both returned dimensions are at least 1, and when max_dim is set and
\* the scaled larger dimension exceeds it, the returned larger dimension
\* equals max_dim.
C9_CapReached ==
    pc = "planner_done" =>
        /\ ret[1] >= 1 /\ ret[2] >= 1
        /\ (/\ args.max_dim # None
            /\ Max(ScaleTrunc(args.original_width, args.scale),
                   ScaleTrunc(args.original_height, args.scale)) > args.max_dim)
              => Max(ret[1], ret[2]) = args.max_dim

----------------------------------------------------------------------------
(* Properties of the HTTP handlers (SpecApi) *)

Answered == pc \in {"compress_done", "estimate_done"}

\* the request passes validation as the claim lists it; the heuristic minimum
\* is 15% under 50000 bytes, else 8% with alpha, 10% for PNG, 5% otherwise
PassesValidation ==
    /\ upload.len > 0
    /\ params.json_ok
    /\ params.target_bytes > 0 /\ params.target_bytes < upload.len
    /\ params.output_format \in {"auto", "jpeg", "png", "webp"}
    /\ params.quality_mode \in {"auto", "manual"}
    /\ params.priority \in {"target_size", "optimal_resolution"}
    /\ params.quality = None \/ params.quality \in 1..100
    /\ LET pct == IF upload.len < 50000 THEN 15
                  ELSE IF upload.mode = "RGBA" THEN 8
                  ELSE IF upload.format = "PNG" THEN 10 ELSE 5
       IN  100 * params.target_bytes >= pct * upload.len

\* C4: a request that passes validation, on an image that decodes, gets a
\* success result from compress_image and from estimate_image.
C4_ValidRequestSucceeds ==
    (Answered /\ PassesValidation /\ upload.decodable
        /\ (params.quality_mode = "manual" <=> params.quality # None))
        => response.status = 200

RejectedBeforeDecode ==
    /\ response.status = 400
    /\ response.cause \in {"HTTPException", "JSONDecodeError", "ValidationError"}
    /\ decodes = 0 /\ encodes = <<>> /\ calls = <<>>

\* C5 as claimed: manual quality 10 is rejected at validation, before the
\* image is decoded and before any encode (checked on requests that are
\* valid in every other respect).
C5_QualityTenRejected ==
    (Answered /\ params.quality_mode = "manual" /\ params.quality = 10
        /\ PassesValidation /\ upload.decodable)
        => RejectedBeforeDecode

\* C5 amended: the allowed range is 1..100, so it is a manual quality outside
\* 1..100 (0, 101) that is rejected at validation, before the image is
\* decoded and before any encode.
C5_OutOfRangeRejected ==
    (Answered /\ params.quality_mode = "manual" /\ params.quality # None
        /\ params.quality \notin 1..100)
        => RejectedBeforeDecode

C5_Witness ==
    /\ Answered
    /\ params.quality_mode = "manual" /\ params.quality = 0
    /\ upload.len > 0 /\ params.target_bytes > 0 /\ params.target_bytes < upload.len
    /\ params.output_format = "auto"
    /\ response.cause = "ValidationError"

====
